---- MODULE Spec2Model ----
(***************************************************************************)
(* Model of rename_all_pdf.py: the title inference engine                  *)
(* (extract_title_from_metadata, extract_title_from_content), the filename *)
(* sanitizer (clean_filename) and the batch renamer (main).                *)
(*                                                                         *)
(* A Python str is a sequence of one-character strings; None is the        *)
(* one-element sequence <<"None">>, which no str equals.                    *)
(***************************************************************************)
EXTENDS Integers, Sequences, FiniteSets, TLC

VARIABLES
    pc,             \* position of main
    listing,        \* the result of os.listdir(directory), evaluated once
    dir,            \* the directory: file name -> identity of the file
    idx,            \* index in listing of the current loop entry
    used_names,     \* main's used_names
    title,          \* main's title
    cleaned_title,  \* main's cleaned_title
    new_name,       \* main's new_name
    open_handles,   \* handles that are open: "f" (open(pdf_path)), "doc" (fitz.open)
    exit_code,      \* process exit status, None while running
    attempted,      \* history: the entries main started to process, in order
    assigned,       \* history: the names added to used_names, in order
    meta_outcome,   \* history, current file: how the metadata stage ended
    content_calls,  \* history, current file: calls of extract_title_from_content
    outcome,        \* history, current file: how its processing ended
    pre_used,       \* history: used_names when the current file was started
    pre_dir,        \* history: dir when the current file was started
    fn_in,          \* argument of the pure function under test
    fn_out          \* the successive results of the pure function under test

vars == <<pc, listing, dir, idx, used_names, title, cleaned_title, new_name,
          open_handles, exit_code, attempted, assigned, meta_outcome,
          content_calls, outcome, pre_used, pre_dir, fn_in, fn_out>>

mainVars == <<pc, listing, dir, idx, used_names, title, cleaned_title, new_name,
              open_handles, exit_code, attempted, assigned, meta_outcome,
              content_calls, outcome, pre_used, pre_dir>>

----------------------------------------------------------------------------
(* Python values *)

None == <<"None">>

\* Python truthiness of an optional str: None and "" are falsy
Truthy(s) == s /= None /\ s /= <<>>

UpperChars == <<"A","B","C","D","E","F","G","H","I","J","K","L","M",
                "N","O","P","Q","R","S","T","U","V","W","X","Y","Z">>

LowerChars == <<"a","b","c","d","e","f","g","h","i","j","k","l","m",
                "n","o","p","q","r","s","t","u","v","w","x","y","z">>

UpperSet == {UpperChars[i] : i \in DOMAIN UpperChars}

LowerSet == {LowerChars[i] : i \in DOMAIN LowerChars}

\* the lowercase letter of each uppercase letter
ToLower ==
    [c \in UpperSet |->
        LowerChars[CHOOSE i \in DOMAIN UpperChars : UpperChars[i] = c]]

IsUpperChar(c) == c \in UpperSet

IsLowerChar(c) == c \in LowerSet

LowerChar(c) == IF c \in UpperSet THEN ToLower[c] ELSE c

\* str.lower()
Lower(s) == [i \in DOMAIN s |-> LowerChar(s[i])]

\* str.isupper(): at least one cased character and no lowercase one
IsUpper(s) ==
    /\ \E i \in DOMAIN s : IsUpperChar(s[i])
    /\ \A i \in DOMAIN s : ~IsLowerChar(s[i])

\* sub in s
Contains(s, sub) ==
    \E i \in 0..(Len(s) - Len(sub)) : SubSeq(s, i + 1, i + Len(sub)) = sub

\* s.endswith(suffix)
EndsWith(s, suffix) ==
    /\ Len(s) >= Len(suffix)
    /\ SubSeq(s, Len(s) - Len(suffix) + 1, Len(s)) = suffix

\* the characters str.split() and str.strip() treat as whitespace
Whitespace == {" ", "\t", "\n", "\r"}

RECURSIVE LStrip(_)
LStrip(s) ==
    IF s /= <<>> /\ Head(s) \in Whitespace THEN LStrip(Tail(s)) ELSE s

RECURSIVE RStrip(_)
RStrip(s) ==
    IF s /= <<>> /\ s[Len(s)] \in Whitespace
    THEN RStrip(SubSeq(s, 1, Len(s) - 1))
    ELSE s

\* str.strip()
Strip(s) == RStrip(LStrip(s))

\* str.split(): the maximal runs of non-whitespace characters, in order
RECURSIVE SplitFrom(_, _)
SplitFrom(s, word) ==
    IF s = <<>>
    THEN IF word = <<>> THEN <<>> ELSE <<word>>
    ELSE IF Head(s) \in Whitespace
         THEN IF word = <<>>
              THEN SplitFrom(Tail(s), <<>>)
              ELSE <<word>> \o SplitFrom(Tail(s), <<>>)
         ELSE SplitFrom(Tail(s), Append(word, Head(s)))

Split(s) == SplitFrom(s, <<>>)

\* ' '.join(parts)
RECURSIVE JoinSpace(_)
JoinSpace(parts) ==
    IF parts = <<>> THEN <<>>
    ELSE IF Len(parts) = 1 THEN parts[1]
    ELSE parts[1] \o <<" ">> \o JoinSpace(Tail(parts))

\* s[:n] for n >= 0
Prefix(s, n) == SubSeq(s, 1, IF Len(s) < n THEN Len(s) ELSE n)

\* str(n) for n >= 0
DigitChars == <<"0","1","2","3","4","5","6","7","8","9">>

RECURSIVE Str(_)
Str(n) ==
    IF n < 10 THEN <<DigitChars[n + 1]>>
    ELSE Str(n \div 10) \o <<DigitChars[(n % 10) + 1]>>

----------------------------------------------------------------------------
(* clean_filename *)

\* the characters of the class [\\/*?"<>|]
IllegalChars == {"\\", "/", "*", "?", "\"", "<", ">", "|"}

\* cleaned[:200]
NameLimit == 200

\* title.replace(':', ' ')
ReplaceColon(s) == [i \in DOMAIN s |-> IF s[i] = ":" THEN " " ELSE s[i]]

\* re.sub(r'[\\/*?"<>|]', '_', s)
SubIllegal(s) == [i \in DOMAIN s |-> IF s[i] \in IllegalChars THEN "_" ELSE s[i]]

\* if cleaned.endswith('_1'): cleaned = cleaned[:-2]
StripSuffix(s) ==
    IF EndsWith(s, <<"_", "1">>) THEN SubSeq(s, 1, Len(s) - 2) ELSE s

\* each step's value is bound once, as an assignment in the source is
clean_filename(t) ==
    IF ~Truthy(t) THEN None
    ELSE CHOOSE result \in
            {Prefix(stripped, NameLimit) :
                stripped \in {StripSuffix(cleaned) :
                    cleaned \in {SubIllegal(Strip(joined)) :
                        joined \in {JoinSpace(Split(spaced)) :
                            spaced \in {ReplaceColon(t)}}}}} : TRUE

----------------------------------------------------------------------------
(* extract_title_from_content *)

\* journal_keywords, the configuration passed to main (two of its entries)
Keywords == << <<"S","e","n","s","o","r","s">>,
               <<"P","h","y","s","i","c","a"," ","A">> >>

\* the loop over blocks, lines and spans: text stripped, empty text dropped
RECURSIVE CollectSpans(_)
CollectSpans(raw) ==
    IF raw = <<>> THEN <<>>
    ELSE LET text == Strip(Head(raw).text)
         IN  IF text /= <<>>
             THEN <<[text |-> text, size |-> Head(raw).size,
                     y0 |-> Head(raw).y0, x0 |-> Head(raw).x0]>>
                  \o CollectSpans(Tail(raw))
             ELSE CollectSpans(Tail(raw))

\* sorted(set(...), reverse=True)
RECURSIVE SortedDesc(_)
SortedDesc(S) ==
    IF S = {} THEN <<>>
    ELSE LET m == CHOOSE x \in S : \A y \in S : y <= x
         IN  <<m>> \o SortedDesc(S \ {m})

\* [span for span in spans if span["size"] == size]
RECURSIVE SpansOfSize(_, _)
SpansOfSize(spans, size) ==
    IF spans = <<>> THEN <<>>
    ELSE IF Head(spans).size = size
         THEN <<Head(spans)>> \o SpansOfSize(Tail(spans), size)
         ELSE SpansOfSize(Tail(spans), size)

\* the sort key (s["y0"], s["x0"]), compared as Python compares tuples
KeyLeq(a, b) == a.y0 < b.y0 \/ (a.y0 = b.y0 /\ a.x0 <= b.x0)

\* list.sort(key=...): stable, so equal keys keep their order
RECURSIVE SortSpans(_)
SortSpans(spans) ==
    IF spans = <<>> THEN <<>>
    ELSE LET front == SortSpans(SubSeq(spans, 1, Len(spans) - 1))
             x     == spans[Len(spans)]
             k     == Cardinality({i \in DOMAIN front : KeyLeq(front[i], x)})
         IN  SubSeq(front, 1, k) \o <<x>> \o SubSeq(front, k + 1, Len(front))

\* ' '.join(span["text"] for span in sorted spans of one size)
GroupText(spans, size) ==
    LET group == SortSpans(SpansOfSize(spans, size))
    IN  JoinSpace([i \in DOMAIN group |-> group[i].text])

Arxiv == <<"a","r","x","i","v">>

PeerReview == <<"p","e","e","r"," ","r","e","v","i","e","w">>

\* len(largest_text.strip()) <= 2
ShortLen == 2

\* variant: the banner words are looked up without lowering the text
RuleBannerCaseSensitive(largest_text) ==
    Contains(largest_text, Arxiv) \/ Contains(largest_text, PeerReview)

\* case 1: arxiv or peer review
RuleBanner(largest_text) ==
    LET lowered == Lower(largest_text)
    IN  Contains(lowered, Arxiv) \/ Contains(lowered, PeerReview)

\* case 2: one or two uppercase letters
RuleShortUpper(largest_text) ==
    Len(Strip(largest_text)) <= ShortLen /\ IsUpper(largest_text)

\* case 3: a journal name
RuleKeyword(largest_text, keywords) ==
    LET largest_text_lower == Lower(largest_text)
    IN  \E k \in DOMAIN keywords :
            Contains(largest_text_lower, Lower(keywords[k]))

\* lines 48-84: the title chosen from the collected spans
TitleFromSpans(spans, keywords) ==
    IF spans = <<>> THEN None
    ELSE LET sizes == SortedDesc({spans[i].size : i \in DOMAIN spans})
         IN  IF Len(sizes) < 2 THEN None
             ELSE LET largest_text == GroupText(spans, sizes[1])
                      should_use_second_size ==
                          \/ RuleBanner(largest_text)
                          \/ RuleShortUpper(largest_text)
                          \/ RuleKeyword(largest_text, keywords)
                  IN  IF should_use_second_size
                      THEN GroupText(spans, sizes[2])
                      ELSE largest_text

----------------------------------------------------------------------------
(* Inputs of the pure functions *)

\* longest title given to clean_filename
MaxTitleLen == 4

TitleAlphabet == {"a", "_", "1", " ", ":", "?"}

TitleInputs ==
    {None} \cup UNION {[1..n -> TitleAlphabet] : n \in 0..MaxTitleLen}

\* most spans on a first page
MaxSpans == 3

SpanTexts == { <<"a","r","X","i","v">>,
               <<"P","e","e","r"," ","R","e","v","i","e","w">>,
               <<"A","B">>,
               <<"A","b">>,
               <<"S","E","N","S","O","R","S">> }

FontSizes == {12, 16, 20}

Positions == {<<0, 1>>, <<1, 0>>}

SpanPool ==
    {[text |-> t, size |-> z, y0 |-> p[1], x0 |-> p[2]] :
        t \in SpanTexts, z \in FontSizes, p \in Positions}

SpanLists == UNION {[1..n -> SpanPool] : n \in 0..MaxSpans}

\* main does not run while a pure function is exercised
MainIdle ==
    /\ pc = "idle"
    /\ listing = <<>>
    /\ dir = <<>>
    /\ idx = 0
    /\ used_names = {}
    /\ title = None
    /\ cleaned_title = None
    /\ new_name = None
    /\ open_handles = {}
    /\ exit_code = None
    /\ attempted = <<>>
    /\ assigned = <<>>
    /\ meta_outcome = "pending"
    /\ content_calls = 0
    /\ outcome = "pending"
    /\ pre_used = {}
    /\ pre_dir = <<>>

(* clean_filename applied to a title, then to its own results *)
InitClean == MainIdle /\ fn_in \in TitleInputs /\ fn_out = <<>>

CallClean ==
    /\ fn_out = <<>>
    /\ fn_out' = <<clean_filename(fn_in)>>
    /\ UNCHANGED <<fn_in, mainVars>>

CallCleanAgain ==
    /\ Len(fn_out) = 1
    /\ fn_out' = Append(fn_out, clean_filename(fn_out[1]))
    /\ UNCHANGED <<fn_in, mainVars>>

NextClean == CallClean \/ CallCleanAgain

SpecClean == InitClean /\ [][NextClean]_vars

(* lines 48-84 of extract_title_from_content applied to a list of spans *)
InitContent == MainIdle /\ fn_in \in SpanLists /\ fn_out = <<>>

CallContent ==
    /\ fn_out = <<>>
    /\ fn_out' = <<TitleFromSpans(fn_in, Keywords)>>
    /\ UNCHANGED <<fn_in, mainVars>>

NextContent == CallContent

SpecContent == InitContent /\ [][NextContent]_vars

----------------------------------------------------------------------------
(* The batch run of main: inputs *)

\* most entries in the directory
MaxFiles == 3

PdfSuffix == <<".", "p", "d", "f">>

\* entries the directory may hold
EntryNames == { <<"T", ".", "p", "d", "f">>,
                <<"a", ".", "p", "d", "f">>,
                <<"b", ".", "P", "D", "F">>,
                <<"n", ".", "t", "x", "t">> }

\* what pdf.metadata() may hand back: no info, or the value of
\* info.get('/Title', ''), which is '' when the field is missing
MetaInfos == { None,
               <<>>,
               <<"T">>,
               <<"T", "_", "1">>,
               <<"T", " ", "(", "1", ")">>,
               <<":">> }

RawSpan(t, z, y, x) == [text |-> t, size |-> z, y0 |-> y, x0 |-> x]

\* first pages get_text("dict") may describe, as the spans of their lines
SamplePages ==
    { <<>>,
      << RawSpan(<<" ", " ">>, 12, 0, 0) >>,
      << RawSpan(<<"T">>, 12, 0, 0), RawSpan(<<"a">>, 12, 1, 0) >>,
      << RawSpan(<<"a">>, 20, 0, 0), RawSpan(<<"x", " ">>, 12, 1, 0) >>,
      << RawSpan(<<"T">>, 16, 1, 0), RawSpan(<<" ", "A", "B">>, 20, 0, 0) >> }

Range(f) == {f[i] : i \in DOMAIN f}

Listings ==
    {l \in UNION {[1..n -> EntryNames] : n \in 0..MaxFiles} :
        \A i, j \in DOMAIN l : i /= j => l[i] /= l[j]}

\* filename.lower().endswith('.pdf')
IsPdf(filename) == EndsWith(Lower(filename), PdfSuffix)

----------------------------------------------------------------------------
(* The batch run of main: operations *)

\* extract_title_from_metadata, given what the reader did: raised, or
\* handed back info
MetadataTitle(raised, info) ==
    IF raised THEN None
    ELSE IF info /= None /\ Truthy(info) THEN info ELSE None

\* variant: the content stage runs whatever the metadata gave
AfterMetadataAlways(t) == "content_open"

\* line 151: the content stage runs only if the metadata gave no title
AfterMetadata(t) == IF ~Truthy(t) THEN "content_open" ELSE "check_title"

\* the with block of extract_title_from_metadata closes f on every exit
MetadataExit(handles) == handles \ {"f"}

\* variant: the document is left open
ContentFinallyLeak(handles) == handles

\* finally: if 'doc' in locals(): doc.close()
ContentFinally(handles) == handles \ {"doc"}

\* lines 27-88 once the document is open: what extract_title_from_content
\* returns when the page has no pages, when reading raises, and otherwise
ContentTitle(zero_pages, raised, page, keywords) ==
    IF zero_pages THEN None
    ELSE IF raised THEN None
    ELSE TitleFromSpans(CollectSpans(page), keywords)

\* f"{base_name}.pdf"
PlainName(base_name) == base_name \o PdfSuffix

\* f"{base_name} ({counter}).pdf"
NumberedName(base_name, counter) ==
    base_name \o <<" ", "(">> \o Str(counter) \o <<")">> \o PdfSuffix

\* variant: one probe only, an if in place of the while
ProbeOnce(base_name, counter, name, used) ==
    IF name \in used THEN NumberedName(base_name, counter) ELSE name

\* while new_name in used_names: new_name = ...; counter += 1
RECURSIVE Probe(_, _, _, _)
Probe(base_name, counter, name, used) ==
    IF name \in used
    THEN Probe(base_name, counter + 1, NumberedName(base_name, counter), used)
    ELSE name

\* variant: the counter starts at 0
UniqueInRunFromZero(base_name, used) ==
    Probe(base_name, 0, PlainName(base_name), used)

\* lines 167-172
UniqueInRun(base_name, used) == Probe(base_name, 1, PlainName(base_name), used)

\* f"{base_name} ({counter}).{ext}"
NumberedDiskName(base_name, counter, ext) ==
    base_name \o <<" ", "(">> \o Str(counter) \o <<")", ".">> \o ext

\* while os.path.exists(target_path): ...; existing is the set of names the
\* directory holds
RECURSIVE ProbeDisk(_, _, _, _, _)
ProbeDisk(base_name, counter, ext, name, existing) ==
    IF name \in existing
    THEN ProbeDisk(base_name, counter + 1, ext,
                   NumberedDiskName(base_name, counter, ext), existing)
    ELSE name

\* the on-disk variant of the name search; main does not call it
get_unique_filename(existing, base_name, ext) ==
    ProbeDisk(base_name, 1, ext, base_name \o <<".">> \o ext, existing)

\* variant: the continue of line 164 is missing
AfterCleanNoSkip(cleaned) == "resolve"

\* lines 162-164: an empty sanitized name skips the file
AfterClean(cleaned) == IF ~Truthy(cleaned) THEN "loop" ELSE "resolve"

\* variant: the rename error is not caught and ends the run
OnRenameErrorRaise == "crashed"

\* lines 180-181: a rename error is printed and the loop goes on
OnRenameError == "loop"

\* os.rename(src, dst) that succeeds: dst now names the file src named,
\* replacing whatever dst named before
RenameIn(d, src, dst) ==
    [n \in (DOMAIN d \ {src}) \cup {dst} |-> IF n = dst THEN d[src] ELSE d[n]]

Init ==
    /\ pc = "start"
    /\ listing \in Listings
    /\ dir = [n \in Range(listing) |->
                 CHOOSE i \in DOMAIN listing : listing[i] = n]
    /\ idx = 0
    /\ used_names = {}
    /\ title = None
    /\ cleaned_title = None
    /\ new_name = None
    /\ open_handles = {}
    /\ exit_code = None
    /\ attempted = <<>>
    /\ assigned = <<>>
    /\ meta_outcome = "pending"
    /\ content_calls = 0
    /\ outcome = "pending"
    /\ pre_used = {}
    /\ pre_dir = dir
    /\ fn_in = <<>>
    /\ fn_out = <<>>

\* lines 128-139: the argument check
CheckArgs ==
    /\ pc = "start"
    /\ \E argc \in 1..3, isdir \in BOOLEAN :
          IF argc /= 2 \/ ~isdir
          THEN /\ pc' = "exited"
               /\ exit_code' = 1
               /\ UNCHANGED used_names
          ELSE /\ pc' = "loop"
               /\ used_names' = {}
               /\ UNCHANGED exit_code
    /\ UNCHANGED <<listing, dir, idx, title, cleaned_title, new_name,
                   open_handles, attempted, assigned, meta_outcome,
                   content_calls, outcome, pre_used, pre_dir, fn_in, fn_out>>

\* line 142, listing exhausted: main returns
LoopEnd ==
    /\ pc = "loop"
    /\ idx = Len(listing)
    /\ pc' = "done"
    /\ exit_code' = 0
    /\ UNCHANGED <<listing, dir, idx, used_names, title, cleaned_title,
                   new_name, open_handles, attempted, assigned, meta_outcome,
                   content_calls, outcome, pre_used, pre_dir, fn_in, fn_out>>

\* lines 142-143, an entry that is no PDF
LoopSkipOther ==
    /\ pc = "loop"
    /\ idx < Len(listing)
    /\ ~IsPdf(listing[idx + 1])
    /\ idx' = idx + 1
    /\ UNCHANGED <<pc, listing, dir, used_names, title, cleaned_title,
                   new_name, open_handles, exit_code, attempted, assigned,
                   meta_outcome, content_calls, outcome, pre_used, pre_dir,
                   fn_in, fn_out>>

\* lines 142-145, a PDF entry: its processing starts
LoopStartPdf ==
    /\ pc = "loop"
    /\ idx < Len(listing)
    /\ IsPdf(listing[idx + 1])
    /\ idx' = idx + 1
    /\ attempted' = Append(attempted, listing[idx + 1])
    /\ meta_outcome' = "pending"
    /\ content_calls' = 0
    /\ outcome' = "pending"
    /\ pre_used' = used_names
    /\ pre_dir' = dir
    /\ pc' = "meta_open"
    /\ UNCHANGED <<listing, dir, used_names, title, cleaned_title, new_name,
                   open_handles, exit_code, assigned, fn_in, fn_out>>

\* line 9: open(pdf_path, 'rb') succeeds or raises
MetaOpen ==
    /\ pc = "meta_open"
    /\ \E ok \in BOOLEAN :
          IF ok /\ listing[idx] \in DOMAIN dir
          THEN /\ open_handles' = open_handles \cup {"f"}
               /\ pc' = "meta_read"
               /\ UNCHANGED <<title, meta_outcome>>
          ELSE /\ title' = MetadataTitle(TRUE, None)
               /\ meta_outcome' = "error"
               /\ pc' = AfterMetadata(title')
               /\ UNCHANGED open_handles
    /\ UNCHANGED <<listing, dir, idx, used_names, cleaned_title, new_name,
                   exit_code, attempted, assigned, content_calls, outcome,
                   pre_used, pre_dir, fn_in, fn_out>>

\* lines 10-21: the reader raises or hands back info; f is closed
MetaRead ==
    /\ pc = "meta_read"
    /\ \E raised \in BOOLEAN, info \in MetaInfos :
          /\ raised => info = None
          /\ title' = MetadataTitle(raised, info)
          /\ meta_outcome' = IF raised THEN "error"
                             ELSE IF Truthy(title') THEN "title" ELSE "none"
    /\ open_handles' = MetadataExit(open_handles)
    /\ pc' = AfterMetadata(title')
    /\ UNCHANGED <<listing, dir, idx, used_names, cleaned_title, new_name,
                   exit_code, attempted, assigned, content_calls, outcome,
                   pre_used, pre_dir, fn_in, fn_out>>

\* lines 153, 25-26: extract_title_from_content is called; fitz.open
\* succeeds or raises (then doc is no local and nothing is closed)
ContentOpen ==
    /\ pc = "content_open"
    /\ content_calls' = content_calls + 1
    /\ \E ok \in BOOLEAN :
          IF ok /\ listing[idx] \in DOMAIN dir
          THEN /\ open_handles' = open_handles \cup {"doc"}
               /\ pc' = "content_body"
               /\ UNCHANGED title
          ELSE /\ title' = None
               /\ pc' = "check_title"
               /\ UNCHANGED open_handles
    /\ UNCHANGED <<listing, dir, idx, used_names, cleaned_title, new_name,
                   exit_code, attempted, assigned, meta_outcome, outcome,
                   pre_used, pre_dir, fn_in, fn_out>>

\* lines 27-91: the document is read, a title or None returned, doc closed
ContentBody ==
    /\ pc = "content_body"
    /\ \E zero_pages \in BOOLEAN, raised \in BOOLEAN, page \in SamplePages :
          /\ (zero_pages \/ raised) => page = <<>>
          /\ ~(zero_pages /\ raised)
          /\ title' = ContentTitle(zero_pages, raised, page, Keywords)
    /\ open_handles' = ContentFinally(open_handles)
    /\ pc' = "check_title"
    /\ UNCHANGED <<listing, dir, idx, used_names, cleaned_title, new_name,
                   exit_code, attempted, assigned, meta_outcome,
                   content_calls, outcome, pre_used, pre_dir, fn_in, fn_out>>

\* lines 156-158: no title, the file is skipped
SkipNoTitle ==
    /\ pc = "check_title"
    /\ ~Truthy(title)
    /\ outcome' = "no_title"
    /\ pc' = "loop"
    /\ UNCHANGED <<listing, dir, idx, used_names, title, cleaned_title,
                   new_name, open_handles, exit_code, attempted, assigned,
                   meta_outcome, content_calls, pre_used, pre_dir, fn_in,
                   fn_out>>

\* lines 161-164: the title is sanitized; an empty name skips the file
Clean ==
    /\ pc = "check_title"
    /\ Truthy(title)
    /\ cleaned_title' = clean_filename(title)
    /\ pc' = AfterClean(cleaned_title')
    /\ outcome' = IF ~Truthy(cleaned_title') THEN "invalid" ELSE outcome
    /\ UNCHANGED <<listing, dir, idx, used_names, title, new_name,
                   open_handles, exit_code, attempted, assigned, meta_outcome,
                   content_calls, pre_used, pre_dir, fn_in, fn_out>>

\* lines 167-174: the name is chosen and registered
Resolve ==
    /\ pc = "resolve"
    /\ new_name' = UniqueInRun(cleaned_title, used_names)
    /\ used_names' = used_names \cup {new_name'}
    /\ assigned' = Append(assigned, new_name')
    /\ pc' = "rename"
    /\ UNCHANGED <<listing, dir, idx, title, cleaned_title, open_handles,
                   exit_code, attempted, meta_outcome, content_calls, outcome,
                   pre_used, pre_dir, fn_in, fn_out>>

\* lines 177-181: os.rename succeeds, or raises and the error is printed
Rename ==
    /\ pc = "rename"
    /\ \E ok \in BOOLEAN :
          IF ok /\ listing[idx] \in DOMAIN dir
          THEN /\ dir' = RenameIn(dir, listing[idx], new_name)
               /\ outcome' = "renamed"
               /\ pc' = "loop"
          ELSE /\ outcome' = "rename_failed"
               /\ pc' = OnRenameError
               /\ UNCHANGED dir
    /\ UNCHANGED <<listing, idx, used_names, title, cleaned_title, new_name,
                   open_handles, exit_code, attempted, assigned, meta_outcome,
                   content_calls, pre_used, pre_dir, fn_in, fn_out>>

Next ==
    \/ CheckArgs
    \/ LoopEnd
    \/ LoopSkipOther
    \/ LoopStartPdf
    \/ MetaOpen
    \/ MetaRead
    \/ ContentOpen
    \/ ContentBody
    \/ SkipNoTitle
    \/ Clean
    \/ Resolve
    \/ Rename

Spec == Init /\ [][Next]_vars

\* main is one sequential program: a step that can be taken is taken
FairSpec == Spec /\ WF_vars(Next)

----------------------------------------------------------------------------
(* Properties of the batch run *)

NameT == <<"T", ".", "p", "d", "f">>

NameT1 == <<"T", " ", "(", "1", ")", ".", "p", "d", "f">>

NameT2 == <<"T", " ", "(", "2", ")", ".", "p", "d", "f">>

\* the PDF-suffixed entries of the listing, in listing order
PdfEntries == SelectSeq(listing, IsPdf)

\* the names assigned before the latest one
EarlierNames == {assigned[i] : i \in 1..(Len(assigned) - 1)}

\* the current file has been given a name
Named == pc = "rename" \/ outcome \in {"renamed", "rename_failed"}

\* C1: the names assigned in one run (those added to used_names) are
\* pairwise distinct: no file gets a name an earlier file of the run got.
C1_DistinctNames ==
    /\ \A i, j \in DOMAIN assigned : i /= j => assigned[i] /= assigned[j]
    /\ used_names = Range(assigned)

C1_Witness ==
    /\ pc = "done"
    /\ assigned = <<NameT, NameT1, NameT2>>

\* C2: the name chosen for base is base.pdf if that is unused, otherwise
\* base (n).pdf for the smallest n >= 1 that is unused; it is registered
\* before the rename is attempted and stays registered if the rename fails.
C2_SmallestFreeName ==
    /\ Range(assigned) \subseteq used_names
    /\ Named =>
          /\ assigned /= <<>>
          /\ new_name = assigned[Len(assigned)]
          /\ new_name \in used_names
          /\ IF PlainName(cleaned_title) \notin EarlierNames
             THEN new_name = PlainName(cleaned_title)
             ELSE \E n \in 1..Len(assigned) :
                     /\ new_name = NumberedName(cleaned_title, n)
                     /\ new_name \notin EarlierNames
                     /\ \A m \in 1..(n - 1) :
                           NumberedName(cleaned_title, m) \in EarlierNames

C2_Witness ==
    /\ pc = "loop"
    /\ outcome = "rename_failed"
    /\ assigned = <<NameT, NameT1, NameT2>>
    /\ new_name = NameT2
    /\ NameT2 \in used_names

\* C3: once the argument is accepted, every PDF entry of the listing is
\* attempted exactly once, in listing order, whatever happened to the
\* entries before it, and the run ends normally with exit code 0.
C3_BatchResilience ==
    /\ [](\E n \in 0..Len(PdfEntries) : attempted = SubSeq(PdfEntries, 1, n))
    /\ [](pc = "loop" =>
             <>(pc = "done" /\ exit_code = 0 /\ attempted = PdfEntries))

C3_Witness ==
    /\ pc = "done"
    /\ exit_code = 0
    /\ Len(attempted) = 3
    /\ Len(assigned) = 1
    /\ outcome = "renamed"

\* C4: if the metadata stage yields a non-empty title the content stage is
\* never invoked for that file; it is invoked only after the metadata stage
\* gave no title or failed, and then always.
C4_MetadataShortCircuit ==
    /\ meta_outcome = "title" => content_calls = 0 /\ Truthy(title)
    /\ content_calls <= 1
    /\ content_calls = 1 => meta_outcome \in {"none", "error"}
    /\ meta_outcome \in {"none", "error"} =>
          (pc = "content_open" /\ content_calls = 0) \/ content_calls = 1

C4_Witness ==
    /\ pc = "done"
    /\ meta_outcome = "title"
    /\ content_calls = 0
    /\ outcome = "renamed"
    /\ Len(attempted) = 2
    /\ Len(assigned) = 1

\* the current file was skipped: no stage gave a title, or its sanitized
\* name is empty or absent
Skipped ==
    /\ pc \in {"loop", "done"}
    /\ attempted /= <<>>
    /\ ~Truthy(title) \/ ~Truthy(clean_filename(title))

\* C8: a skipped file leaves everything unchanged: no rename is attempted
\* and used_names and the directory are what they were before the file.
C8_SkipChangesNothing ==
    Skipped =>
        /\ outcome \in {"no_title", "invalid"}
        /\ used_names = pre_used
        /\ dir = pre_dir

C8_Witness ==
    /\ pc = "loop"
    /\ outcome = "invalid"
    /\ title = <<":">>
    /\ used_names = {NameT}
    /\ NameT \in DOMAIN dir

\* C9: every exit path of the metadata stage and of the content stage
\* closes the handle it opened: at most one handle is open at any point and
\* none is open outside the two stages.
C9_HandlesReleased ==
    /\ Cardinality(open_handles) <= 1
    /\ pc \notin {"meta_read", "content_body"} => open_handles = {}
    /\ pc = "meta_read" => open_handles = {"f"}
    /\ pc = "content_body" => open_handles = {"doc"}

C9_Witness ==
    /\ pc = "check_title"
    /\ meta_outcome = "error"
    /\ content_calls = 1
    /\ title = None
    /\ open_handles = {}
    /\ Len(attempted) = 2

\* C10: main never renames a file onto a name that another file of the
\* directory has, so the run leaves as many files as it found.
C10_NoFileLost == Cardinality(DOMAIN dir) = Len(listing)

----------------------------------------------------------------------------
(* Properties of the content stage *)

\* the distinct font sizes of the spans
SizesOf(spans) == {spans[i].size : i \in DOMAIN spans}

\* the texts of the spans of one size, joined with single spaces, in every
\* order that is ascending in (y, x)
OrderedTexts(spans, size) ==
    LET at == {i \in DOMAIN spans : spans[i].size = size}
        n  == Cardinality(at)
        orders == {f \in [1..n -> at] :
                      /\ \A i, j \in 1..n : i /= j => f[i] /= f[j]
                      /\ \A i \in 1..(n - 1) :
                            \/ spans[f[i]].y0 < spans[f[i + 1]].y0
                            \/ /\ spans[f[i]].y0 = spans[f[i + 1]].y0
                               /\ spans[f[i]].x0 <= spans[f[i + 1]].x0}
    IN  {JoinSpace([i \in 1..n |-> spans[f[i]].text]) : f \in orders}

\* word occurs in text at some position
Occurs(word, text) ==
    \E i \in 1..(Len(text) - Len(word) + 1) :
        \A k \in 1..Len(word) : text[i + k - 1] = word[k]

\* the three override rules, on the primary text
Overridden(primary) ==
    LET lowered == Lower(primary)
    IN  \/ Occurs(Arxiv, lowered) \/ Occurs(PeerReview, lowered)
        \/ /\ Len(Strip(primary)) <= 2
           /\ \E i \in DOMAIN primary : primary[i] \in UpperSet
           /\ \A i \in DOMAIN primary : primary[i] \notin LowerSet
        \/ \E k \in DOMAIN Keywords : Occurs(Lower(Keywords[k]), lowered)

\* C5: with fewer than two distinct font sizes no title is returned;
\* otherwise the secondary text is returned when the primary text triggers
\* an override rule, and the primary text when none does.
C5_ContentSelection ==
    fn_out /= <<>> =>
        LET sizes == SizesOf(fn_in)
        IN  IF Cardinality(sizes) < 2 THEN fn_out[1] = None
            ELSE LET largest == CHOOSE z \in sizes : \A w \in sizes : w <= z
                     lower   == sizes \ {largest}
                     second  == CHOOSE z \in lower : \A w \in lower : w <= z
                 IN  \E primary \in OrderedTexts(fn_in, largest) :
                        IF Overridden(primary)
                        THEN fn_out[1] \in OrderedTexts(fn_in, second)
                        ELSE fn_out[1] = primary

C5_Witness ==
    /\ Len(fn_in) = 3
    /\ fn_in[1] = RawSpan(<<"A", "b">>, 16, 1, 0)
    /\ fn_in[2] = RawSpan(<<"a", "r", "X", "i", "v">>, 20, 0, 1)
    /\ fn_in[3] = RawSpan(<<"A", "B">>, 16, 0, 1)
    /\ fn_out = << <<"A", "B", " ", "A", "b">> >>

----------------------------------------------------------------------------
(* Properties of the sanitizer *)

\* C6: a name the sanitizer yields is a fixed point of the sanitizer:
\* clean_filename(clean_filename(x)) = clean_filename(x).
C6_Idempotent ==
    (Len(fn_out) = 2 /\ Truthy(fn_out[1])) => fn_out[2] = fn_out[1]

\* C7: the name the sanitizer returns never ends with the suffix "_1".
C7_NoSuffix ==
    (fn_out /= <<>> /\ fn_out[1] /= None) => ~EndsWith(fn_out[1], <<"_", "1">>)

====
